---- MODULE Spec2Model ----
(***************************************************************************)
(* Model of the orchestration workflow of src/orchestrator/workflow.py:    *)
(* the LangGraph state machine built by OrchestrationWorkflow (router,     *)
(* research, code, decision, synthesizer, validator) run by execute on one *)
(* WorkflowState.                                                          *)
(*                                                                         *)
(* Conventions.  Confidences are exact rationals counted in units of       *)
(* 1/ConfOne.  An Optional value is a sequence of length 0 (None) or 1.    *)
(* Texts whose wording is built with f-strings are records of their        *)
(* parts.  The collaborators (agents, the LLM) are the environment: each   *)
(* call returns one of a small set of results or raises; the exceptions of *)
(* one execution carry the same text exc_text.                             *)
(*                                                                         *)
(* The graph runtime runs one node at a time, follows the conditional edge *)
(* of the node it ran, and gives up with an error after RecursionLimit     *)
(* node executions; execute reads its result from the state the last node  *)
(* left.                                                                   *)
(***************************************************************************)
EXTENDS Integers, Sequences, FiniteSets, TLC

VARIABLES
    query_type,         \* WorkflowState.query_type
    original_query,     \* WorkflowState.original_query, a sequence of characters
    priority,           \* WorkflowState.priority
    next_agent,         \* WorkflowState.next_agent (Optional)
    agents_visited,     \* WorkflowState.agents_visited
    messages,           \* WorkflowState.messages
    agent_responses,    \* WorkflowState.agent_responses, a function on its keys
    current_status,     \* WorkflowState.current_status
    confidence_scores,  \* WorkflowState.confidence_scores
    processing_times,   \* WorkflowState.processing_times
    final_response,     \* WorkflowState.final_response (Optional)
    total_confidence,   \* WorkflowState.total_confidence
    validation,         \* WorkflowState.metadata["validation"] (Optional)
    errors,             \* WorkflowState.errors
    retry_count,        \* WorkflowState.retry_count
    retry_max_attempts, \* settings.retry_max_attempts
    exc_text,           \* str(e) of the exceptions the collaborators raise
    node,               \* the node the graph runs next, "end", or where execute returned
    steps,              \* node executions of the graph run so far
    pass_nodes,         \* agent nodes executed since the last router entry
    llm_calls,          \* calls of decision_agent.llm.ainvoke made by the synthesizer
    result,             \* the record execute returned (Optional)
    agent_registry,     \* AgentCommunicationProtocol.agent_registry
    message_queue,      \* AgentCommunicationProtocol.message_queue: name -> list object
    lists,              \* the list objects made for message_queue, by identity
    clock,              \* messages built so far; the next message's timestamp
    sent_log,           \* every message send_message built, in the order built
    delivered,          \* what each receive_messages call returned, in order
    last_call,          \* the latest protocol call made on its own, and what it returned (Optional)
    snd,                \* position and locals of a send_message call in progress
    rcv,                \* position and locals of a receive_messages call in progress
    active_queries,     \* main.py active_queries[query_id] (Optional)
    stored_status,      \* status process_query wrote to the query document (Optional)
    announced           \* status of the WebSocket update process_query sent (Optional)

vars == <<query_type, original_query, priority, next_agent, agents_visited,
          messages, agent_responses, current_status, confidence_scores,
          processing_times, final_response, total_confidence, validation,
          errors, retry_count, retry_max_attempts, exc_text, node, steps,
          pass_nodes, llm_calls, result, agent_registry, message_queue, lists,
          clock, sent_log, delivered, last_call, snd, rcv, active_queries,
          stored_status, announced>>

service_vars == <<active_queries, stored_status, announced>>

workflow_vars == <<query_type, original_query, priority, next_agent,
                   agents_visited, messages, agent_responses, current_status,
                   confidence_scores, processing_times, final_response,
                   total_confidence, validation, errors, retry_count,
                   retry_max_attempts, exc_text, node, steps, pass_nodes,
                   llm_calls, result>>

protocol_vars == <<agent_registry, message_queue, lists, clock, sent_log,
                   delivered, last_call, snd, rcv>>

-----------------------------------------------------------------------------
(* Bounds of the model *)

MaxAttemptsBound == 2    \* retry_max_attempts ranges over 0..MaxAttemptsBound
RecursionLimit == 10     \* node executions one graph run may make

-----------------------------------------------------------------------------
(* Values *)

None == << >>
Some(x) == << x >>

ConfOne == 60 * 100                     \* confidence 1.0
Conf(hundredths) == 60 * hundredths     \* confidence hundredths/100

QueryTypes == {"RESEARCH", "CODE", "DECISION", "GENERAL"}
Priorities == {"MEDIUM", "HIGH"}
Roles == {"research", "code", "decision"}

Text49 == "The answer text of forty-nine characters, padded."
Text50 == "The answer text of exactly fifty characters, pad.y"

\* The query texts tried: one without and one with the word in mixed case.
Queries == { <<"s", "o", "r", "t">>, <<"C", "o", "D", "E", "c">> }

\* What a collaborator's process call may return: an answer of either length
\* with a confidence on either side of the two thresholds, or the response
\* the agents build themselves when their own work failed.
AgentContents == {Text49, Text50}
AgentConfidences == {Conf(20), Conf(30), Conf(70)}
ExcTexts == {"", "boom"}
Durations == {3}

Put(f, k, v) == [x \in DOMAIN f \cup {k} |-> IF x = k THEN v ELSE f[x]]
Get(f, k, default) == IF k \in DOMAIN f THEN f[k] ELSE default
Range(s) == {s[i] : i \in DOMAIN s}
EmptyMap == [x \in {} |-> 0]

\* No send_message / receive_messages call is in progress.
NoSend == [pc |-> "idle", message |-> None, ref |-> None]
NoReceive == [pc |-> "idle", name |-> None, ref |-> None]

\* process_query before it calls execute: the query is marked PROCESSING.
QueryAccepted ==
    /\ active_queries = Some("PROCESSING")
    /\ stored_status = None
    /\ announced = None

\* No request is being served.
ServiceIdle ==
    /\ active_queries = None
    /\ stored_status = None
    /\ announced = None

\* AgentCommunicationProtocol.__init__: both maps are empty.
ProtocolConstructed ==
    /\ agent_registry = EmptyMap
    /\ message_queue = EmptyMap
    /\ lists = << >>
    /\ clock = 0
    /\ sent_log = << >>
    /\ delivered = << >>
    /\ last_call = None
    /\ snd = NoSend
    /\ rcv = NoReceive

-----------------------------------------------------------------------------
(* str.lower() and the substring test `"code" in text` *)

Lower(c) ==
    CASE c = "C" -> "c"
      [] c = "O" -> "o"
      [] c = "D" -> "d"
      [] c = "E" -> "e"
      [] OTHER -> c

LowerText(text) == [i \in DOMAIN text |-> Lower(text[i])]

Contains(text, sub) ==
    \E i \in 0..(Len(text) - Len(sub)) :
        \A j \in 1..Len(sub) : text[i + j] = sub[j]

CodeWord == <<"c", "o", "d", "e">>

-----------------------------------------------------------------------------
(* DecisionAgent.route_query: the agents listed for the query type, or the *)
(* default [RESEARCH] when classification raised; any priority.            *)

routing_rules(qt) ==
    CASE qt = "RESEARCH" -> <<"RESEARCH">>
      [] qt = "CODE"     -> <<"CODE">>
      [] qt = "DECISION" -> <<"RESEARCH", "CODE">>
      [] qt = "GENERAL"  -> << >>

AgentTypeLower(a) ==
    CASE a = "RESEARCH" -> "research"
      [] a = "CODE"     -> "code"
      [] a = "DECISION" -> "decision"

DecisionRouteQuery(qt) ==
    { [agents |-> routing_rules(qt), priority |-> p] : p \in Priorities }
        \cup { [agents |-> <<"RESEARCH">>, priority |-> "MEDIUM"] }

-----------------------------------------------------------------------------
(* The conditional edges of the graph *)

determine_next_agent_code_or_research(qt) ==
    IF qt = "CODE" THEN "code" ELSE "research"

determine_next_agent_synthesizer(qt) == "synthesizer"

determine_next_agent_by_routing_rules(qt) ==
    IF routing_rules(qt) # << >>
    THEN AgentTypeLower(routing_rules(qt)[1])
    ELSE "research"

determine_next_agent(qt) ==
    IF qt = "RESEARCH" THEN "research"
    ELSE IF qt = "CODE" THEN "code"
    ELSE IF qt = "DECISION" THEN "decision"
    ELSE "research"

after_research_case_sensitive(qt, query, visited) ==
    IF "code" \notin Range(visited)
          /\ (qt = "CODE" \/ Contains(query, CodeWord))
    THEN "code"
    ELSE IF "decision" \notin Range(visited) /\ qt = "DECISION"
    THEN "decision"
    ELSE "synthesizer"

after_research(qt, query, visited) ==
    IF "code" \notin Range(visited)
          /\ (qt = "CODE" \/ Contains(LowerText(query), CodeWord))
    THEN "code"
    ELSE IF "decision" \notin Range(visited) /\ qt = "DECISION"
    THEN "decision"
    ELSE "synthesizer"

CodeThreshold == Conf(70)

after_code(qt, visited, scores) ==
    IF "research" \notin Range(visited)
          /\ (qt = "DECISION" \/ Get(scores, "code", 0) < CodeThreshold)
    THEN "research"
    ELSE "synthesizer"

after_decision_validator == "validator"
after_decision == "synthesizer"

should_retry_unchecked(val, retries, maxAttempts) ==
    IF retries < maxAttempts THEN "router" ELSE "end"

should_retry(val, retries, maxAttempts) ==
    IF ~Get(val, 1, [is_valid |-> FALSE]).is_valid /\ retries < maxAttempts
    THEN "router"
    ELSE "end"

AfterAgent(role, qt, query, visited, scores) ==
    CASE role = "research" -> after_research(qt, query, visited)
      [] role = "code"     -> after_code(qt, visited, scores)
      [] role = "decision" -> after_decision

-----------------------------------------------------------------------------
(* execute: the initial WorkflowState *)

Init ==
    /\ query_type \in QueryTypes
    /\ original_query \in Queries
    /\ retry_max_attempts \in 0..MaxAttemptsBound
    /\ exc_text \in ExcTexts
    /\ priority = "MEDIUM"
    /\ next_agent = None
    /\ agents_visited = << >>
    /\ messages = << [kind |-> "human", about |-> "query"] >>
    /\ agent_responses = EmptyMap
    /\ current_status = "PENDING"
    /\ confidence_scores = EmptyMap
    /\ processing_times = EmptyMap
    /\ final_response = None
    /\ total_confidence = 0
    /\ validation = None
    /\ errors = << >>
    /\ retry_count = 0
    /\ node = "router"
    /\ steps = 0
    /\ pass_nodes = << >>
    /\ llm_calls = 0
    /\ result = None
    /\ ProtocolConstructed
    /\ QueryAccepted

\* The graph runs `node` only while the run has steps left.
CanRun(n) == node = n /\ steps < RecursionLimit

-----------------------------------------------------------------------------
(* route_query, followed by the edge determine_next_agent *)

FirstAgent(agents) ==
    IF agents # << >> THEN AgentTypeLower(agents[1]) ELSE "research"

RouteQuery ==
    /\ CanRun("router")
    /\ \E r \in DecisionRouteQuery(query_type) :
          /\ priority' = r.priority
          /\ next_agent' = Some(FirstAgent(r.agents))
          /\ messages' = Append(messages,
                 [kind |-> "routed", about |-> FirstAgent(r.agents)])
    /\ current_status' = "PROCESSING"
    /\ node' = determine_next_agent(query_type)
    /\ steps' = steps + 1
    /\ pass_nodes' = << >>
    /\ UNCHANGED <<query_type, original_query, agents_visited, agent_responses,
                   confidence_scores, processing_times, final_response,
                   total_confidence, validation, errors, retry_count,
                   retry_max_attempts, exc_text, llm_calls, result>>
    /\ UNCHANGED <<protocol_vars, service_vars>>

-----------------------------------------------------------------------------
(* research_node, code_node, decision_node: the three nodes have the same  *)
(* body up to the role's names.                                            *)

AgentTypeOf(role) ==
    CASE role = "research" -> "RESEARCH"
      [] role = "code"     -> "CODE"
      [] role = "decision" -> "DECISION"

ErrorLabel(role) ==
    CASE role = "research" -> "Research agent"
      [] role = "code"     -> "Code agent"
      [] role = "decision" -> "Decision agent"

FailedContent(role) ==
    CASE role = "research" -> "Research failed"
      [] role = "code"     -> "Code generation failed"
      [] role = "decision" -> "Decision failed"

AgentFailedContent(role) ==
    CASE role = "research" -> "Failed to complete research"
      [] role = "code"     -> "Failed to generate code solution"
      [] role = "decision" -> "Failed to process query through decision agent"

\* The response an agent returns when it caught its own exception.
DegradedResult(role, text) ==
    [agent_type |-> AgentTypeOf(role), content |-> AgentFailedContent(role),
     confidence |-> 0, processing_time |-> CHOOSE d \in Durations : TRUE,
     error |-> Some(text)]

\* The AgentResponse values a collaborator's process call may return.
ProcessResults(role) ==
    { [agent_type |-> AgentTypeOf(role), content |-> c, confidence |-> k,
       processing_time |-> d, error |-> None] :
         c \in AgentContents, k \in AgentConfidences, d \in Durations }
      \cup { DegradedResult(role, exc_text) }

FailedResponseNoError(role, text) ==
    [agent_type |-> AgentTypeOf(role), content |-> FailedContent(role),
     confidence |-> 0, processing_time |-> 0, error |-> None]

\* The response stored in the except branch of a node.
FailedResponse(role, text) ==
    [agent_type |-> AgentTypeOf(role), content |-> FailedContent(role),
     confidence |-> 0, processing_time |-> 0, error |-> Some(text)]

\* try branch: process returned `response` after `elapsed` seconds.
NodeSuccess(role, response, elapsed) ==
    /\ agent_responses' = Put(agent_responses, role, response)
    /\ confidence_scores' = Put(confidence_scores, role, response.confidence)
    /\ processing_times' = Put(processing_times, role, elapsed)
    /\ agents_visited' = Append(agents_visited, role)
    /\ messages' = Append(messages, [kind |-> "completed", about |-> role])
    /\ errors' = errors

\* except branch: process raised an exception e with str(e) = text.
NodeFailure(role, text) ==
    /\ errors' = Append(errors, [source |-> ErrorLabel(role), text |-> text])
    /\ agent_responses' = Put(agent_responses, role, FailedResponse(role, text))
    /\ UNCHANGED <<confidence_scores, processing_times, agents_visited, messages>>

AgentNode(role) ==
    /\ CanRun(role)
    /\ \/ \E response \in ProcessResults(role), elapsed \in Durations :
              NodeSuccess(role, response, elapsed)
       \/ NodeFailure(role, exc_text)
    /\ node' = AfterAgent(role, query_type, original_query,
                          agents_visited', confidence_scores')
    /\ steps' = steps + 1
    /\ pass_nodes' = Append(pass_nodes, role)
    /\ UNCHANGED <<query_type, original_query, priority, next_agent,
                   current_status, final_response, total_confidence, validation,
                   retry_count, retry_max_attempts, exc_text, llm_calls, result>>
    /\ UNCHANGED <<protocol_vars, service_vars>>

ResearchNode == AgentNode("research")

CodeNode == AgentNode("code")

DecisionNode == AgentNode("decision")

-----------------------------------------------------------------------------
(* synthesize_responses *)

NoResponsesText == "No agent responses available"
SynthesisFailedTextReused == "No agent responses available"
SynthesisFailedText == "Failed to synthesize responses"

WeightUniform(response) == 2

\* weight = 1.0 if response.error is None else 0.5, counted in halves
Weight(response) == IF response.error = None THEN 2 ELSE 1

RECURSIVE SumOver(_, _)
SumOver(f, keys) ==
    IF keys = {} THEN 0
    ELSE LET k == CHOOSE x \in keys : TRUE
         IN  f[k] + SumOver(f, keys \ {k})

WeightedConfidenceByCount(responses) ==
    SumOver([r \in DOMAIN responses |->
                responses[r].confidence * Weight(responses[r])],
            DOMAIN responses) \div Cardinality(DOMAIN responses)

WeightedConfidence(responses) ==
    LET total_confidence_sum ==
            SumOver([r \in DOMAIN responses |->
                        responses[r].confidence * Weight(responses[r])],
                    DOMAIN responses)
        total_weight ==
            SumOver([r \in DOMAIN responses |-> Weight(responses[r])],
                    DOMAIN responses)
    IN  IF total_weight > 0
        THEN total_confidence_sum \div total_weight
        ELSE Conf(50)

\* The texts the LLM may return for the synthesis prompt.
LlmContents == {"", Text49, Text50}

SynthesisCaseNoEmpty(responses) ==
    IF Cardinality(DOMAIN responses) = 1 THEN "single" ELSE "multiple"

SynthesisCaseNoSingle(responses) ==
    IF DOMAIN responses = {} THEN "none" ELSE "multiple"

\* `if not responses` / `if len(responses) == 1` / otherwise
SynthesisCase(responses) ==
    IF DOMAIN responses = {} THEN "none"
    ELSE IF Cardinality(DOMAIN responses) = 1 THEN "single"
    ELSE "multiple"

SynthesizeResponses ==
    /\ CanRun("synthesizer")
    /\ IF SynthesisCase(agent_responses) = "none"
       THEN /\ final_response' = Some(NoResponsesText)
            /\ total_confidence' = 0
            /\ UNCHANGED <<messages, errors, llm_calls>>
       ELSE IF SynthesisCase(agent_responses) = "single"
       THEN LET response ==
                    agent_responses[CHOOSE r \in DOMAIN agent_responses : TRUE]
            IN  /\ final_response' = Some(response.content)
                /\ total_confidence' = response.confidence
                /\ UNCHANGED <<messages, errors, llm_calls>>
       ELSE /\ llm_calls' = llm_calls + 1
            /\ \/ \E synthesized \in LlmContents :
                     /\ total_confidence' = WeightedConfidence(agent_responses)
                     /\ final_response' = Some(synthesized)
                     /\ messages' = Append(messages,
                            [kind |-> "synthesis", about |-> "confidence"])
                     /\ errors' = errors
               \/ /\ errors' = Append(errors,
                         [source |-> "Synthesis", text |-> exc_text])
                  /\ final_response' = Some(SynthesisFailedText)
                  /\ total_confidence' = 0
                  /\ messages' = messages
    /\ node' = "validator"
    /\ steps' = steps + 1
    /\ UNCHANGED <<query_type, original_query, priority, next_agent,
                   agents_visited, agent_responses, current_status,
                   confidence_scores, processing_times, validation, retry_count,
                   retry_max_attempts, exc_text, pass_nodes, result>>
    /\ UNCHANGED <<protocol_vars, service_vars>>

-----------------------------------------------------------------------------
(* validate_response, followed by the edge should_retry *)

ConfidenceThreshold == Conf(30)
MaxErrors == 2
MinResponseLength == 50

\* `not state.get("final_response")`: None or the empty string
NoResponse(response) == response = None \/ response[1] = ""

ValidationIssuesInclusive(response, confidence, errs) ==
      (IF NoResponse(response)
       THEN <<"No final response generated">> ELSE << >>)
    \o (IF confidence <= ConfidenceThreshold
       THEN <<"Low confidence">> ELSE << >>)
    \o (IF Len(errs) > MaxErrors
       THEN <<"Too many errors">> ELSE << >>)
    \o (IF ~NoResponse(response) /\ Len(response[1]) <= MinResponseLength
       THEN <<"Response too short">> ELSE << >>)

ValidationIssuesErrorsIgnored(response, confidence, errs) ==
      (IF NoResponse(response)
       THEN <<"No final response generated">> ELSE << >>)
    \o (IF confidence < ConfidenceThreshold
       THEN <<"Low confidence">> ELSE << >>)
    \o (IF ~NoResponse(response) /\ Len(response[1]) < MinResponseLength
       THEN <<"Response too short">> ELSE << >>)

ValidationIssues(response, confidence, errs) ==
      (IF NoResponse(response)
       THEN <<"No final response generated">> ELSE << >>)
    \o (IF confidence < ConfidenceThreshold
       THEN <<"Low confidence">> ELSE << >>)
    \o (IF Len(errs) > MaxErrors
       THEN <<"Too many errors">> ELSE << >>)
    \o (IF ~NoResponse(response) /\ Len(response[1]) < MinResponseLength
       THEN <<"Response too short">> ELSE << >>)

\* is_valid is set to False together with each issue appended.
IsValid(response, confidence, errs) ==
    ValidationIssues(response, confidence, errs) = << >>

RetryGrantedInclusive(is_valid, retries, maxAttempts) ==
    ~is_valid /\ retries <= maxAttempts

RetryGrantedAlways(is_valid, retries, maxAttempts) ==
    retries < maxAttempts

\* `not is_valid and retry_count < settings.retry_max_attempts`
RetryGranted(is_valid, retries, maxAttempts) ==
    ~is_valid /\ retries < maxAttempts

ValidateResponse ==
    /\ CanRun("validator")
    /\ LET is_valid == IsValid(final_response, total_confidence, errors)
           issues == ValidationIssues(final_response, total_confidence, errors)
       IN  /\ validation' = Some([is_valid |-> is_valid, issues |-> issues])
           /\ IF RetryGranted(is_valid, retry_count, retry_max_attempts)
              THEN /\ retry_count' = retry_count + 1
                   /\ current_status' = "PROCESSING"
              ELSE /\ retry_count' = retry_count
                   /\ current_status' =
                          IF is_valid THEN "COMPLETED" ELSE "FAILED"
    /\ node' = should_retry(validation', retry_count', retry_max_attempts)
    /\ steps' = steps + 1
    /\ UNCHANGED <<query_type, original_query, priority, next_agent,
                   agents_visited, messages, agent_responses, confidence_scores,
                   processing_times, final_response, total_confidence, errors,
                   retry_max_attempts, exc_text, pass_nodes, llm_calls, result>>
    /\ UNCHANGED <<protocol_vars, service_vars>>

-----------------------------------------------------------------------------
(* execute: the record returned after the graph run, and the record of the *)
(* except branch when the run raised (the graph run stops with an error    *)
(* once it has made RecursionLimit steps without reaching END).            *)

\* The record built from the final state of the run.
FinalResult ==
    [status |-> current_status,
     response |-> final_response,
     confidence |-> total_confidence,
     agents_used |-> agents_visited,
     processing_times |-> processing_times,
     errors |-> errors,
     metadata |-> [validation |-> validation, error_type |-> None]]

ExceptResultNoErrors ==
    [status |-> current_status,
     response |-> Some("Workflow execution failed"),
     confidence |-> 0,
     agents_used |-> << >>,
     processing_times |-> EmptyMap,
     errors |-> << >>,
     metadata |-> [validation |-> None,
                   error_type |-> Some("GraphRecursionError")]]

\* The record built in the except branch, for the error of the graph run.
ExceptResult ==
    [status |-> "FAILED",
     response |-> Some("Workflow execution failed"),
     confidence |-> 0,
     agents_used |-> << >>,
     processing_times |-> EmptyMap,
     errors |-> << [source |-> "Workflow", text |-> "Recursion limit reached"] >>,
     metadata |-> [validation |-> None,
                   error_type |-> Some("GraphRecursionError")]]

ExecuteReturn ==
    /\ node = "end"
    /\ result' = Some(FinalResult)
    /\ node' = "returned"
    /\ UNCHANGED <<query_type, original_query, priority, next_agent,
                   agents_visited, messages, agent_responses, current_status,
                   confidence_scores, processing_times, final_response,
                   total_confidence, validation, errors, retry_count,
                   retry_max_attempts, exc_text, steps, pass_nodes, llm_calls>>
    /\ UNCHANGED <<protocol_vars, service_vars>>

GraphRunRaised == node \in Roles \cup {"router", "synthesizer", "validator"}
                      /\ steps >= RecursionLimit

ExecuteExcept ==
    /\ GraphRunRaised
    /\ result' = Some(ExceptResult)
    /\ node' = "returned_failure"
    /\ UNCHANGED <<query_type, original_query, priority, next_agent,
                   agents_visited, messages, agent_responses, current_status,
                   confidence_scores, processing_times, final_response,
                   total_confidence, validation, errors, retry_count,
                   retry_max_attempts, exc_text, steps, pass_nodes, llm_calls>>
    /\ UNCHANGED <<protocol_vars, service_vars>>

Next ==
    \/ RouteQuery
    \/ ResearchNode
    \/ CodeNode
    \/ DecisionNode
    \/ SynthesizeResponses
    \/ ValidateResponse
    \/ ExecuteReturn
    \/ ExecuteExcept

Spec == Init /\ [][Next]_vars

-----------------------------------------------------------------------------
(* synthesize_responses on its own: the node entered with any mapping of   *)
(* roles to responses, followed by the validator and the end of the run.   *)

SynthConfidences == {0, Conf(20), Conf(90)}
SynthErrors == {None, Some("boom")}

SynthResponses(role) ==
    { [agent_type |-> AgentTypeOf(role), content |-> c, confidence |-> k,
       processing_time |-> d, error |-> e] :
         c \in AgentContents, k \in SynthConfidences,
         d \in Durations, e \in SynthErrors }

RoleOrder == <<"research", "code", "decision">>
InOrder(roles) == SelectSeq(RoleOrder, LAMBDA r : r \in roles)

SynthInit ==
    /\ query_type = "GENERAL"
    /\ original_query = CHOOSE q \in Queries : Len(q) = 4
    /\ retry_max_attempts = 0
    /\ exc_text \in ExcTexts
    /\ priority = "MEDIUM"
    /\ next_agent = Some("research")
    /\ \E keys \in SUBSET Roles :
          /\ agent_responses \in [keys -> UNION {SynthResponses(r) : r \in Roles}]
          /\ \A r \in keys : agent_responses[r] \in SynthResponses(r)
          /\ agents_visited = InOrder(keys)
          /\ confidence_scores = [r \in keys |-> agent_responses[r].confidence]
          /\ processing_times = [r \in keys |-> agent_responses[r].processing_time]
    /\ messages = << [kind |-> "human", about |-> "query"] >>
    /\ current_status = "PROCESSING"
    /\ final_response = None
    /\ total_confidence = 0
    /\ validation = None
    /\ errors = << >>
    /\ retry_count = 0
    /\ node = "synthesizer"
    /\ steps = 0
    /\ pass_nodes = << >>
    /\ llm_calls = 0
    /\ result = None
    /\ ProtocolConstructed
    /\ QueryAccepted

SynthNext ==
    \/ SynthesizeResponses
    \/ ValidateResponse
    \/ ExecuteReturn

SpecSynth == SynthInit /\ [][SynthNext]_vars

-----------------------------------------------------------------------------
(* AgentCommunicationProtocol.  A list object is an index into `lists`;    *)
(* message_queue maps a name to the list object that is its queue, so that *)
(* a caller holding the list receive_messages returned and the queue that  *)
(* replaced it are two different objects.  A timestamp is the number of    *)
(* messages built before this one.                                         *)

MaxMessages == 2     \* messages built in one behaviour
MaxReceives == 2     \* receive_messages calls in one behaviour

\* The names whose agents send; the names that may be registered with an
\* object that has no get_status method.
Senders == {"research", "decision"}
PlainNames == {"research"}

\* The collaborators a name can be registered with: objects with and
\* without a get_status method.
AgentObjects == { [get_status |-> TRUE], [get_status |-> FALSE] }

\* What the get_status method of an agent registered under `name` returns.
AgentGetStatus(name) == [agent |-> name, status |-> "active"]

Message(from_agent, to_agent, message_type, content, timestamp) ==
    [from |-> from_agent, to |-> to_agent, type |-> message_type,
     content |-> content, timestamp |-> timestamp]

Call(op, arg, returned) == Some([op |-> op, arg |-> arg, returned |-> returned])

\* The contents of the queue of a name that has one.
Queue(name) == lists[message_queue[name]]

EnqueueFront(queues, heap, message) ==
    IF message.to \in DOMAIN queues
    THEN [heap EXCEPT ![queues[message.to]] = << message >> \o @]
    ELSE heap

EnqueueEverywhere(queues, heap, message) ==
    IF message.to \in DOMAIN queues
    THEN [i \in DOMAIN heap |-> Append(heap[i], message)]
    ELSE heap

\* `if to_agent in self.message_queue: self.message_queue[to_agent].append(message)`
Enqueue(queues, heap, message) ==
    IF message.to \in DOMAIN queues
    THEN [heap EXCEPT ![queues[message.to]] = Append(@, message)]
    ELSE heap

SendMessage(from_agent, to_agent) ==
    /\ clock < MaxMessages
    /\ LET message == Message(from_agent, to_agent, "info", "content", clock)
       IN  /\ lists' = Enqueue(message_queue, lists, message)
           /\ sent_log' = Append(sent_log, message)
    /\ clock' = clock + 1
    /\ last_call' = Call("send_message", <<from_agent, to_agent>>, None)
    /\ UNCHANGED <<agent_registry, message_queue, delivered, snd, rcv>>
    /\ UNCHANGED <<workflow_vars, service_vars>>

\* receive_messages: the list that was the queue is returned and a new
\* empty list takes its place; the empty list for a name without a queue.
ReceiveMessages(agent_name) ==
    /\ Len(delivered) < MaxReceives
    /\ IF agent_name \in DOMAIN message_queue
       THEN /\ lists' = Append(lists, << >>)
            /\ message_queue' =
                   [message_queue EXCEPT ![agent_name] = Len(lists) + 1]
            /\ delivered' = Append(delivered,
                   [agent |-> agent_name, at |-> clock,
                    messages |-> Queue(agent_name)])
            /\ last_call' = Call("receive_messages", agent_name,
                                 Queue(agent_name))
       ELSE /\ delivered' = Append(delivered,
                   [agent |-> agent_name, at |-> clock, messages |-> << >>])
            /\ last_call' = Call("receive_messages", agent_name, << >>)
            /\ UNCHANGED <<lists, message_queue>>
    /\ UNCHANGED <<agent_registry, clock, sent_log, snd, rcv>>
    /\ UNCHANGED <<workflow_vars, service_vars>>

\* The order in which the registry is iterated: the order of registration.
RegistryOrder == InOrder(DOMAIN agent_registry)

BroadcastTargetsAll(from_agent) == RegistryOrder

\* `for agent_name in self.agent_registry: if agent_name != from_agent`
BroadcastTargets(from_agent) ==
    SelectSeq(RegistryOrder, LAMBDA name : name # from_agent)

RECURSIVE EnqueueEach(_, _, _)
EnqueueEach(queues, heap, msgs) ==
    IF msgs = << >> THEN heap
    ELSE EnqueueEach(queues, Enqueue(queues, heap, Head(msgs)), Tail(msgs))

BroadcastMessage(from_agent) ==
    LET targets == BroadcastTargets(from_agent)
        msgs == [k \in 1..Len(targets) |->
                    Message(from_agent, targets[k], "info", "content",
                            clock + k - 1)]
    IN  /\ clock + Len(targets) <= MaxMessages
        /\ lists' = EnqueueEach(message_queue, lists, msgs)
        /\ sent_log' = sent_log \o msgs
        /\ clock' = clock + Len(targets)
        /\ last_call' = Call("broadcast_message", from_agent, None)
        /\ UNCHANGED <<agent_registry, message_queue, delivered, snd, rcv>>
        /\ UNCHANGED <<workflow_vars, service_vars>>

UnknownStatus(agent_name) == [status |-> "unknown", agent |-> agent_name]

StatusOfRegistered(registry, agent_name) ==
    IF agent_name \in DOMAIN registry
    THEN AgentGetStatus(agent_name)
    ELSE UnknownStatus(agent_name)

\* What get_agent_status returns.
StatusOf(registry, agent_name) ==
    IF agent_name \in DOMAIN registry /\ registry[agent_name].get_status
    THEN AgentGetStatus(agent_name)
    ELSE UnknownStatus(agent_name)

GetAgentStatus(agent_name) ==
    /\ last_call' = Call("get_agent_status", agent_name,
                         StatusOf(agent_registry, agent_name))
    /\ UNCHANGED <<agent_registry, message_queue, lists, clock, sent_log,
                   delivered, snd, rcv>>
    /\ UNCHANGED <<workflow_vars, service_vars>>

GetAllAgentsStatus ==
    /\ last_call' = Call("get_all_agents_status", None,
           [name \in DOMAIN agent_registry |-> StatusOf(agent_registry, name)])
    /\ UNCHANGED <<agent_registry, message_queue, lists, clock, sent_log,
                   delivered, snd, rcv>>
    /\ UNCHANGED <<workflow_vars, service_vars>>

\* No workflow run is in progress.
WorkflowIdle ==
    /\ query_type = "GENERAL"
    /\ original_query = CHOOSE q \in Queries : Len(q) = 4
    /\ retry_max_attempts = 0
    /\ exc_text = ""
    /\ priority = "MEDIUM"
    /\ next_agent = None
    /\ agents_visited = << >>
    /\ messages = << >>
    /\ agent_responses = EmptyMap
    /\ current_status = "PENDING"
    /\ confidence_scores = EmptyMap
    /\ processing_times = EmptyMap
    /\ final_response = None
    /\ total_confidence = 0
    /\ validation = None
    /\ errors = << >>
    /\ retry_count = 0
    /\ node = "idle"
    /\ steps = 0
    /\ pass_nodes = << >>
    /\ llm_calls = 0
    /\ result = None
    /\ ServiceIdle

\* The sets of names registered so far while main.py registers research,
\* code and decision, in this order.
RegisteredSets ==
    { {RoleOrder[i] : i \in 1..k} : k \in 0..Len(RoleOrder) }

\* The protocol after register_agent was called once for each of `names`,
\* in the order of main.py: every name has its own new, empty list.
Registered(names, agents) ==
    /\ agent_registry = agents
    /\ message_queue =
           [n \in names |->
               CHOOSE i \in 1..Len(InOrder(names)) : InOrder(names)[i] = n]
    /\ lists = [i \in 1..Cardinality(names) |-> << >>]

ProtocolInit ==
    /\ \E names \in RegisteredSets :
          \E agents \in [names -> AgentObjects] :
             /\ \A n \in names : n \in PlainNames \/ agents[n].get_status
             /\ Registered(names, agents)
    /\ clock = 0
    /\ sent_log = << >>
    /\ delivered = << >>
    /\ last_call = None
    /\ snd = NoSend
    /\ rcv = NoReceive
    /\ WorkflowIdle

ProtocolNext ==
    \/ \E from_agent \in Senders, to_agent \in Roles :
           SendMessage(from_agent, to_agent)
    \/ \E agent_name \in Roles : ReceiveMessages(agent_name)
    \/ \E from_agent \in Senders : BroadcastMessage(from_agent)
    \/ \E agent_name \in Roles : GetAgentStatus(agent_name)
    \/ GetAllAgentsStatus

SpecProtocol == ProtocolInit /\ [][ProtocolNext]_vars

-----------------------------------------------------------------------------
(* send_message and receive_messages taken apart into their reads and      *)
(* writes of the queue map and of the list objects, one call of each in    *)
(* progress at a time.  Neither method takes a lock.                       *)

\* The message is built and `to_agent in self.message_queue` is tested.
SendStart(from_agent, to_agent) ==
    /\ snd.pc = "idle"
    /\ clock < MaxMessages
    /\ LET message == Message(from_agent, to_agent, "info", "content", clock)
       IN  /\ sent_log' = Append(sent_log, message)
           /\ snd' = IF to_agent \in DOMAIN message_queue
                     THEN [pc |-> "load", message |-> Some(message),
                           ref |-> None]
                     ELSE NoSend
    /\ clock' = clock + 1
    /\ UNCHANGED <<agent_registry, message_queue, lists, delivered, last_call,
                   rcv>>
    /\ UNCHANGED <<workflow_vars, service_vars>>

\* `self.message_queue[to_agent]` is read.
SendLoad ==
    /\ snd.pc = "load"
    /\ snd' = [snd EXCEPT !.pc = "append",
                          !.ref = Some(message_queue[snd.message[1].to])]
    /\ UNCHANGED <<agent_registry, message_queue, lists, clock, sent_log,
                   delivered, last_call, rcv>>
    /\ UNCHANGED <<workflow_vars, service_vars>>

\* `.append(message)` on the list that was read; send_message returns.
SendAppend ==
    /\ snd.pc = "append"
    /\ lists' = [lists EXCEPT ![snd.ref[1]] = Append(@, snd.message[1])]
    /\ snd' = NoSend
    /\ UNCHANGED <<agent_registry, message_queue, clock, sent_log, delivered,
                   last_call, rcv>>
    /\ UNCHANGED <<workflow_vars, service_vars>>

\* `agent_name in self.message_queue` is tested; `return []` when it is not.
ReceiveStart(agent_name) ==
    /\ rcv.pc = "idle"
    /\ Len(delivered) < MaxReceives
    /\ IF agent_name \in DOMAIN message_queue
       THEN /\ rcv' = [pc |-> "load", name |-> Some(agent_name), ref |-> None]
            /\ delivered' = delivered
       ELSE /\ rcv' = NoReceive
            /\ delivered' = Append(delivered,
                   [agent |-> agent_name, at |-> clock, messages |-> << >>])
    /\ UNCHANGED <<agent_registry, message_queue, lists, clock, sent_log,
                   last_call, snd>>
    /\ UNCHANGED <<workflow_vars, service_vars>>

\* `messages = self.message_queue[agent_name]`
ReceiveLoad ==
    /\ rcv.pc = "load"
    /\ rcv' = [rcv EXCEPT !.pc = "store",
                          !.ref = Some(message_queue[rcv.name[1]])]
    /\ UNCHANGED <<agent_registry, message_queue, lists, clock, sent_log,
                   delivered, last_call, snd>>
    /\ UNCHANGED <<workflow_vars, service_vars>>

\* `self.message_queue[agent_name] = []`
ReceiveStore ==
    /\ rcv.pc = "store"
    /\ lists' = Append(lists, << >>)
    /\ message_queue' = [message_queue EXCEPT ![rcv.name[1]] = Len(lists) + 1]
    /\ rcv' = [rcv EXCEPT !.pc = "return"]
    /\ UNCHANGED <<agent_registry, clock, sent_log, delivered, last_call, snd>>
    /\ UNCHANGED <<workflow_vars, service_vars>>

\* `return messages`: the caller gets the list as it is at this moment.
ReceiveReturn ==
    /\ rcv.pc = "return"
    /\ delivered' = Append(delivered,
           [agent |-> rcv.name[1], at |-> clock,
            messages |-> lists[rcv.ref[1]]])
    /\ rcv' = NoReceive
    /\ UNCHANGED <<agent_registry, message_queue, lists, clock, sent_log,
                   last_call, snd>>
    /\ UNCHANGED <<workflow_vars, service_vars>>

ConcurrentInit ==
    /\ \E names \in RegisteredSets :
          Registered(names, [n \in names |-> [get_status |-> TRUE]])
    /\ clock = 0
    /\ sent_log = << >>
    /\ delivered = << >>
    /\ last_call = None
    /\ snd = NoSend
    /\ rcv = NoReceive
    /\ WorkflowIdle

ConcurrentNext ==
    \/ \E from_agent \in Senders, to_agent \in Roles :
           SendStart(from_agent, to_agent)
    \/ SendLoad
    \/ SendAppend
    \/ \E agent_name \in Roles : ReceiveStart(agent_name)
    \/ ReceiveLoad
    \/ ReceiveStore
    \/ ReceiveReturn

SpecConcurrent == ConcurrentInit /\ [][ConcurrentNext]_vars

-----------------------------------------------------------------------------
(* The protocol over the life of the server: main.py builds it empty,      *)
(* registers research, code and decision in this order, serves, and at     *)
(* shutdown clears agent_registry.  register_agent may be called again for *)
(* a name that is registered.                                              *)

MaxLists == 4        \* list objects made in one behaviour

\* register_agent: the handle is stored and a new empty list becomes the
\* queue of the name, whether or not the name had a queue.
RegisterAgent(agent_name, agent_instance) ==
    /\ Len(lists) < MaxLists
    /\ \A i \in DOMAIN RoleOrder :
          RoleOrder[i] = agent_name
          => \A j \in 1..(i - 1) : RoleOrder[j] \in DOMAIN agent_registry
    /\ agent_registry' = Put(agent_registry, agent_name, agent_instance)
    /\ lists' = Append(lists, << >>)
    /\ message_queue' = Put(message_queue, agent_name, Len(lists) + 1)
    /\ last_call' = Call("register_agent", <<agent_name, agent_instance>>, None)
    /\ UNCHANGED <<clock, sent_log, delivered, snd, rcv>>
    /\ UNCHANGED <<workflow_vars, service_vars>>

ShutdownDone == Call("shutdown", None, None)

\* The shutdown part of lifespan: `communication_protocol.agent_registry.clear()`
LifespanShutdown ==
    /\ agent_registry' = EmptyMap
    /\ last_call' = ShutdownDone
    /\ UNCHANGED <<message_queue, lists, clock, sent_log, delivered, snd, rcv>>
    /\ UNCHANGED <<workflow_vars, service_vars>>

LifespanInit ==
    /\ ProtocolConstructed
    /\ WorkflowIdle

\* The calls that write the protocol's state, until the shutdown.
Serving == last_call # ShutdownDone

LifespanNext ==
    \/ \E agent_name \in Roles, agent_instance \in AgentObjects :
          /\ Serving
          /\ agent_name \in PlainNames \/ agent_instance.get_status
          /\ RegisterAgent(agent_name, agent_instance)
    \/ \E from_agent \in Senders, to_agent \in Roles :
          Serving /\ SendMessage(from_agent, to_agent)
    \/ \E agent_name \in Roles : Serving /\ ReceiveMessages(agent_name)
    \/ \E from_agent \in Senders : Serving /\ BroadcastMessage(from_agent)
    \/ Serving /\ LifespanShutdown

SpecLifespan == LifespanInit /\ [][LifespanNext]_vars

-----------------------------------------------------------------------------
(* The workflow with the agent nodes suspended at `await ...process(...)`.  *)
(* While a node waits, the call can return (the node goes on as in         *)
(* AgentNode) or the task running execute can be cancelled: the            *)
(* CancelledError raised at the await is no Exception, so neither the      *)
(* node's nor execute's `except Exception` handles it and execute returns  *)
(* nothing.  No step of the workflow ends the wait: the nodes await the    *)
(* call without a timeout.                                                 *)

Awaiting(role) ==
    CASE role = "research" -> "research_await"
      [] role = "code" -> "code_await"
      [] role = "decision" -> "decision_await"

AwaitingNodes == { Awaiting(role) : role \in Roles }

\* The node reaches `await self.<role>_agent.process(context)`.
AwaitProcess(role) ==
    /\ CanRun(role)
    /\ node' = Awaiting(role)
    /\ UNCHANGED <<query_type, original_query, priority, next_agent,
                   agents_visited, messages, agent_responses, current_status,
                   confidence_scores, processing_times, final_response,
                   total_confidence, validation, errors, retry_count,
                   retry_max_attempts, exc_text, steps, pass_nodes, llm_calls,
                   result>>
    /\ UNCHANGED <<protocol_vars, service_vars>>

\* The call ends: the node goes on with what it returned or raised.
ProcessEnds(role) ==
    /\ node = Awaiting(role)
    /\ node' = role
    /\ UNCHANGED <<query_type, original_query, priority, next_agent,
                   agents_visited, messages, agent_responses, current_status,
                   confidence_scores, processing_times, final_response,
                   total_confidence, validation, errors, retry_count,
                   retry_max_attempts, exc_text, steps, pass_nodes, llm_calls,
                   result>>
    /\ UNCHANGED <<protocol_vars, service_vars>>

\* The task is cancelled while the node waits: the error leaves execute.
CancelExecution(role) ==
    /\ node = Awaiting(role)
    /\ node' = "cancelled"
    /\ UNCHANGED <<query_type, original_query, priority, next_agent,
                   agents_visited, messages, agent_responses, current_status,
                   confidence_scores, processing_times, final_response,
                   total_confidence, validation, errors, retry_count,
                   retry_max_attempts, exc_text, steps, pass_nodes, llm_calls,
                   result>>
    /\ UNCHANGED <<protocol_vars, service_vars>>

AsyncNext ==
    \/ Next
    \/ \E role \in Roles : AwaitProcess(role)
    \/ \E role \in Roles : ProcessEnds(role)
    \/ \E role \in Roles : CancelExecution(role)

SpecAsync == Init /\ [][AsyncNext]_vars

-----------------------------------------------------------------------------
(* process_query after `result = await workflow.execute(...)`: what it     *)
(* writes to the query document, to active_queries and to the WebSocket    *)
(* clients, on its way to a normal return and in its except branch.        *)

\* The try block runs to `return query_response`; db is the database
\* dependency (None without MongoDB).
ProcessQueryReturn ==
    /\ node \in {"returned", "returned_failure"}
    /\ \E db \in BOOLEAN :
          stored_status' = IF db THEN Some("COMPLETED") ELSE stored_status
    /\ active_queries' = Some("COMPLETED")
    /\ announced' = Some("COMPLETED")
    /\ node' = "responded"
    /\ UNCHANGED <<query_type, original_query, priority, next_agent,
                   agents_visited, messages, agent_responses, current_status,
                   confidence_scores, processing_times, final_response,
                   total_confidence, validation, errors, retry_count,
                   retry_max_attempts, exc_text, steps, pass_nodes, llm_calls,
                   result>>
    /\ UNCHANGED protocol_vars

\* A statement of the try block raised after execute returned (a database
\* call, the response model): the except branch records FAILED and raises.
ProcessQueryFails ==
    /\ node \in {"returned", "returned_failure"}
    /\ \E db \in BOOLEAN :
          stored_status' = IF db THEN Some("FAILED") ELSE stored_status
    /\ active_queries' = Some("FAILED")
    /\ announced' = Some("FAILED")
    /\ node' = "raised"
    /\ UNCHANGED <<query_type, original_query, priority, next_agent,
                   agents_visited, messages, agent_responses, current_status,
                   confidence_scores, processing_times, final_response,
                   total_confidence, validation, errors, retry_count,
                   retry_max_attempts, exc_text, steps, pass_nodes, llm_calls,
                   result>>
    /\ UNCHANGED protocol_vars

ServiceNext ==
    \/ Next
    \/ ProcessQueryReturn
    \/ ProcessQueryFails

SpecService == Init /\ [][ServiceNext]_vars

-----------------------------------------------------------------------------
(* Properties *)

ResultFields == {"status", "response", "confidence", "agents_used",
                 "processing_times", "errors", "metadata"}

Count(seq, x) == Cardinality({i \in DOMAIN seq : seq[i] = x})

\* A step of the graph that ran the node n.
Ran(n) == node = n /\ steps' = steps + 1

\* C1: the record execute returns has status COMPLETED, FAILED or CANCELLED,
\* never PENDING or PROCESSING.
C1_ReturnedStatusIsFinal ==
    result # None => result[1].status \in {"COMPLETED", "FAILED", "CANCELLED"}

\* C2: every graph run reaches END after finitely many node executions, also
\* when every process call of the collaborators raises; stated for those
\* runs: while no agent call has succeeded the run is never cut off before END.
C2_RaisingRunReachesEnd ==
    agents_visited = << >> => node # "returned_failure"

\* C3: within one pass each of the research, code and decision nodes runs at
\* most once, whether its collaborator succeeds or fails.
C3_EachAgentOncePerPass ==
    \A r \in Roles : Count(pass_nodes, r) <= 1

\* C4: retry_count stays between 0 and the configured max_attempts and no
\* step decreases it.
C4_RetryCountBounded ==
    /\ [](retry_count \in 0..retry_max_attempts)
    /\ [][retry_count' >= retry_count]_vars

C4_Witness ==
    /\ retry_max_attempts = 2
    /\ retry_count = retry_max_attempts
    /\ node = "returned"

\* C5: when the validator rejects the answer with retry_count, as on entry,
\* below max_attempts, retry_count is incremented and the next node is the
\* router; in every other case the next node is END.
C5_RetryDecision ==
    [][Ran("validator") =>
          IF ~validation'[1].is_valid /\ retry_count < retry_max_attempts
          THEN retry_count' = retry_count + 1 /\ node' = "router"
          ELSE node' = "end"]_vars

\* C6: when the workflow reaches END, current_status is COMPLETED if the last
\* validation accepted the answer and FAILED if it rejected it.
C6_StatusAtEnd ==
    node = "end" =>
        current_status =
            IF validation[1].is_valid THEN "COMPLETED" ELSE "FAILED"

C8_FailureAbsorbed ==
    [][\A r \in Roles :
          Ran(r) /\ errors' # errors =>
              /\ r \in DOMAIN agent_responses'
              /\ agent_responses'[r].confidence = 0
              /\ agent_responses'[r].error # None
              /\ agent_responses'[r].error[1] # ""
              /\ Len(errors') = Len(errors) + 1
              /\ node' \in (Roles \cup {"synthesizer"}) \ {r}]_vars

\* C8 as amended: the stored response has confidence 0.0 and its error field
\* set to the text of the exception, which is empty for an exception without
\* a message; exactly one string is appended to errors and the workflow goes
\* on along the node's outgoing edge.
C8_FailureAbsorbedErrorSet ==
    [][\A r \in Roles :
          Ran(r) /\ errors' # errors =>
              /\ r \in DOMAIN agent_responses'
              /\ agent_responses'[r].confidence = 0
              /\ agent_responses'[r].error = Some(exc_text)
              /\ Len(errors') = Len(errors) + 1
              /\ node' \in (Roles \cup {"synthesizer"}) \ {r}]_vars

C8_Witness ==
    /\ node = "synthesizer"
    /\ pass_nodes = <<"research">>
    /\ Len(errors) = 1
    /\ agent_responses["research"].error = Some("")
    /\ agent_responses["research"].confidence = 0

\* C9: validate_response marks the answer invalid exactly when final_response
\* is absent or empty, or total_confidence < 0.3, or errors has more than 2
\* entries, or final_response has fewer than 50 characters; a valid answer
\* gets current_status = COMPLETED.
C9_ValidationCriteria ==
    [][Ran("validator") =>
          LET absent == final_response = None \/ final_response[1] = ""
              invalid ==
                  \/ absent
                  \/ 10 * total_confidence < 3 * ConfOne
                  \/ Len(errors) > 2
                  \/ (~absent /\ Len(final_response[1]) < 50)
          IN  /\ validation'[1].is_valid = ~invalid
              /\ ~invalid => current_status' = "COMPLETED"]_vars

C9_Witness ==
    /\ node = "end"
    /\ validation[1].is_valid
    /\ 10 * total_confidence = 3 * ConfOne
    /\ Len(final_response[1]) = 50
    /\ Len(errors) = 2

\* C10: current_status changes only PENDING -> PROCESSING at the router and
\* PROCESSING -> COMPLETED or FAILED at the validator, and once it is
\* COMPLETED or FAILED no node runs and the status stays.
C10_StatusTransitions ==
    [][/\ current_status' # current_status =>
             \/ /\ current_status = "PENDING"
                /\ current_status' = "PROCESSING"
                /\ Ran("router")
             \/ /\ current_status = "PROCESSING"
                /\ current_status' \in {"COMPLETED", "FAILED"}
                /\ Ran("validator")
       /\ current_status \in {"COMPLETED", "FAILED"} =>
             /\ steps' = steps
             /\ current_status' = current_status]_vars

C10_Witness ==
    /\ node = "returned"
    /\ current_status = "FAILED"
    /\ retry_count = 0

\* C11: between node executions the set of roles in agents_visited equals the
\* set of keys of agent_responses.
C11_VisitedEqualsResponses ==
    Range(agents_visited) = DOMAIN agent_responses

\* The weight the claim gives role r, in halves, and 0 for a role without a
\* response; the claim's weighted sum of the confidences.
ClaimWeight(r) ==
    IF r \notin DOMAIN agent_responses THEN 0
    ELSE IF agent_responses[r].error = None THEN 2 ELSE 1
ClaimWeightSum ==
    ClaimWeight("research") + ClaimWeight("code") + ClaimWeight("decision")
ClaimConfidenceSum ==
    LET term(r) == IF r \in DOMAIN agent_responses
                   THEN agent_responses[r].confidence * ClaimWeight(r) ELSE 0
    IN  term("research") + term("code") + term("decision")

\* C12: with two or more responses and a successful combining call,
\* total_confidence = sum(confidence_i * w_i) / sum(w_i) with w_i = 1.0
\* without error and 0.5 with an error, whatever text the call returns.
C12_WeightedAverage ==
    [][Ran("synthesizer") /\ Cardinality(DOMAIN agent_responses) >= 2
          /\ errors' = errors =>
              total_confidence' * ClaimWeightSum = ClaimConfidenceSum]_vars

\* 0.9 without error and 0.2 with an error give 1.0/1.5 = 2/3.
C12_Witness ==
    /\ node = "validator"
    /\ DOMAIN agent_responses = {"research", "code"}
    /\ agent_responses["research"].confidence = Conf(90)
    /\ agent_responses["research"].error = None
    /\ agent_responses["code"].confidence = Conf(20)
    /\ agent_responses["code"].error # None
    /\ 3 * total_confidence = 2 * ConfOne
    /\ final_response = Some("")

\* C13: with exactly one response, final_response and total_confidence are
\* that response's content and confidence, also when it carries an error, and
\* no combining call is made.
C13_SinglePassThrough ==
    [][Ran("synthesizer") /\ Cardinality(DOMAIN agent_responses) = 1 =>
          \E r \in DOMAIN agent_responses :
              /\ final_response' = Some(agent_responses[r].content)
              /\ total_confidence' = agent_responses[r].confidence
              /\ llm_calls' = llm_calls]_vars

C13_Witness ==
    /\ node = "validator"
    /\ DOMAIN agent_responses = {"code"}
    /\ agent_responses["code"].error # None
    /\ final_response = Some(agent_responses["code"].content)
    /\ total_confidence = Conf(90)
    /\ llm_calls = 0

\* C14: with no responses, final_response is "No agent responses available",
\* total_confidence is 0.0 and no combining call is made.
C14_EmptyFallback ==
    [][Ran("synthesizer") /\ DOMAIN agent_responses = {} =>
          /\ final_response' = Some("No agent responses available")
          /\ total_confidence' = 0
          /\ llm_calls' = llm_calls]_vars

C14_Witness ==
    /\ node = "validator"
    /\ DOMAIN agent_responses = {}
    /\ final_response = Some("No agent responses available")
    /\ llm_calls = 0

\* C15: when the combining call fails, synthesize_responses sets
\* final_response to "No agent responses available" and total_confidence to
\* 0, and the workflow proceeds to the validator.
C15_CombineFailureFallback ==
    [][Ran("synthesizer") /\ llm_calls' # llm_calls /\ errors' # errors =>
          /\ final_response' = Some("No agent responses available")
          /\ total_confidence' = 0
          /\ node' = "validator"]_vars

\* C15 as amended: the text set is "Failed to synthesize responses", a text
\* of its own; total_confidence is 0, one entry is appended to errors and the
\* workflow proceeds to the validator.
C15_CombineFailureOwnText ==
    [][Ran("synthesizer") /\ llm_calls' # llm_calls /\ errors' # errors =>
          /\ final_response' = Some("Failed to synthesize responses")
          /\ total_confidence' = 0
          /\ Len(errors') = Len(errors) + 1
          /\ node' = "validator"]_vars

C15_Witness ==
    /\ node = "validator"
    /\ llm_calls = 1
    /\ Len(errors) = 1
    /\ final_response = Some("Failed to synthesize responses")
    /\ total_confidence = 0

\* C16: total_confidence, every confidence_scores value and the confidence
\* of every stored response lie in [0,1].
C16_ConfidencesInUnitInterval ==
    /\ total_confidence \in 0..ConfOne
    /\ \A r \in DOMAIN confidence_scores : confidence_scores[r] \in 0..ConfOne
    /\ \A r \in DOMAIN agent_responses :
          agent_responses[r].confidence \in 0..ConfOne

C16_Witness ==
    /\ node = "validator"
    /\ DOMAIN agent_responses = {"research", "code"}
    /\ agent_responses["research"].confidence = Conf(70)
    /\ agent_responses["code"].confidence = Conf(70)
    /\ total_confidence = Conf(70)

\* C17: on every entry to the router the next node follows from query_type
\* alone: RESEARCH -> research, CODE -> code, DECISION -> decision,
\* GENERAL -> research.
C17_RouterByQueryType ==
    [][Ran("router") =>
          node' = CASE query_type = "RESEARCH" -> "research"
                    [] query_type = "CODE"     -> "code"
                    [] query_type = "DECISION" -> "decision"
                    [] query_type = "GENERAL"  -> "research"]_vars

C17_Witness ==
    /\ query_type = "DECISION"
    /\ node = "decision"
    /\ retry_count = 1
    /\ agents_visited # << >>

\* The query text of Queries that holds "code" once lower-cased.
QueryHasCode == original_query = <<"C", "o", "D", "E", "c">>

\* C18: after the research node the next node is code if code is not in
\* agents_visited and (query_type = CODE or the lower-cased query contains
\* "code"); else decision if decision is not in agents_visited and
\* query_type = DECISION; else synthesizer.
C18_AfterResearch ==
    [][Ran("research") =>
          node' = IF "code" \notin Range(agents_visited')
                        /\ (query_type = "CODE" \/ QueryHasCode)
                  THEN "code"
                  ELSE IF "decision" \notin Range(agents_visited')
                        /\ query_type = "DECISION"
                  THEN "decision"
                  ELSE "synthesizer"]_vars

C18_Witness ==
    /\ query_type = "GENERAL"
    /\ ~QueryHasCode
    /\ pass_nodes = <<"research">>
    /\ "code" \notin Range(agents_visited)
    /\ node = "synthesizer"

\* C19: after the code node the next node is research if research is not in
\* agents_visited and (query_type = DECISION or the confidence of the code
\* response just stored in agent_responses is below 0.7); otherwise it is
\* synthesizer.
C19_AfterCode ==
    [][Ran("code") =>
          node' = IF "research" \notin Range(agents_visited')
                        /\ (query_type = "DECISION"
                              \/ 10 * agent_responses'["code"].confidence
                                     < 7 * ConfOne)
                  THEN "research"
                  ELSE "synthesizer"]_vars

\* C20: after the decision node the next node is always synthesizer, and
\* after the synthesizer always validator.
C20_FixedEdges ==
    [][/\ Ran("decision") => node' = "synthesizer"
       /\ Ran("synthesizer") => node' = "validator"]_vars

C20_Witness ==
    /\ node = "validator"
    /\ pass_nodes = <<"decision">>
    /\ errors # << >>
    /\ agents_visited = << >>

\* A step of the protocol that made the call `op`.
Called(op) == last_call' # None /\ last_call'[1].op = op

\* The clock at the latest receive_messages call for `name`, 0 before the first.
LastReceiveAt(name) ==
    LET calls == {i \in DOMAIN delivered : delivered[i].agent = name}
    IN  IF calls = {} THEN 0
        ELSE delivered[CHOOSE i \in calls : \A j \in calls : j <= i].at

SentSincePreviousReceive(name) ==
    SelectSeq(sent_log,
              LAMBDA m : m.to = name /\ m.timestamp >= LastReceiveAt(name))

\* C21: for a registered role, receive_messages returns exactly the messages
\* sent to that role since its previous receive_messages call, in the order
\* sent, and the role's queue is empty right after the call.
C21_ReceiveDrainsQueue ==
    [][\A name \in Roles :
          /\ name \in DOMAIN agent_registry
          /\ Called("receive_messages")
          /\ last_call'[1].arg = name
          => /\ last_call'[1].returned = SentSincePreviousReceive(name)
             /\ Queue(name)' = << >>]_vars

C21_Witness ==
    /\ Len(delivered) = 2
    /\ delivered[1].agent = delivered[2].agent
    /\ delivered[1].agent \in DOMAIN agent_registry
    /\ Len(delivered[1].messages) = 1
    /\ Len(delivered[2].messages) = 1
    /\ last_call # None
    /\ last_call[1].op = "receive_messages"

\* In how many places the message m is: results of receive_messages calls
\* as of their return, the queue of its role, and the list a
\* receive_messages call has taken out of the queue and is about to return.
Holders(m) ==
    Cardinality({i \in DOMAIN delivered : m \in Range(delivered[i].messages)})
    + (IF m \in Range(Queue(m.to)) THEN 1 ELSE 0)
    + (IF rcv.pc = "return" /\ m \in Range(lists[rcv.ref[1]]) THEN 1 ELSE 0)

\* C22: when send_message and receive_messages for the same registered role
\* interleave at their reads and writes of the queue map and list, every
\* message whose send_message call finished is in the result of exactly one
\* receive_messages call as of that call's return, or still in the queue.
C22_NoMessageLostOrDuplicated ==
    \A i \in DOMAIN sent_log :
        sent_log[i].to \in DOMAIN agent_registry
            /\ snd.message # Some(sent_log[i])
        => Holders(sent_log[i]) = 1

\* The queue of n after the step is its queue before plus one message from x.
OneAppended(n, x) ==
    /\ Len(Queue(n)') = Len(Queue(n)) + 1
    /\ SubSeq(Queue(n)', 1, Len(Queue(n))) = Queue(n)
    /\ Queue(n)'[Len(Queue(n)')].from = x
    /\ Queue(n)'[Len(Queue(n)')].to = n

\* C23: broadcast_message from X appends exactly one message to the queue of
\* every registered role other than X and nothing to X's own queue, whether X
\* is registered or not.
C23_BroadcastReachesOthers ==
    [][\A x \in Roles :
          Called("broadcast_message") /\ last_call'[1].arg = x
          => /\ message_queue' = message_queue
             /\ \A n \in DOMAIN agent_registry :
                   IF n = x THEN Queue(n)' = Queue(n) ELSE OneAppended(n, x)]_vars

C23_Witness ==
    /\ last_call = Call("broadcast_message", "decision", None)
    /\ DOMAIN agent_registry = {"research", "code"}
    /\ Len(Queue("research")) = 1
    /\ Len(Queue("code")) = 1

\* C24: send_message to a registered role appends exactly one message to that
\* role's queue and leaves all other queues and the registry unchanged;
\* send_message to an unregistered role creates no queue and leaves every
\* queue and the registry unchanged.
C24_SendFrame ==
    [][\A f \in Roles, t \in Roles :
          Called("send_message") /\ last_call'[1].arg = <<f, t>>
          => /\ agent_registry' = agent_registry
             /\ DOMAIN message_queue' = DOMAIN message_queue
             /\ \A n \in DOMAIN message_queue :
                   IF n = t /\ t \in DOMAIN agent_registry
                   THEN OneAppended(n, f)
                   ELSE Queue(n)' = Queue(n)]_vars

C24_Witness ==
    /\ last_call = Call("send_message", <<"research", "decision">>, None)
    /\ "decision" \notin DOMAIN agent_registry
    /\ "code" \in DOMAIN agent_registry
    /\ Len(Queue("code")) = 1
    /\ Queue("research") = << >>
    /\ clock = 2

\* C25: when the execution is cancelled while an agent node waits for its
\* collaborator, it ends with current_status CANCELLED and execute returns
\* the result record.
C25_CancelledRunReturnsRecord ==
    node = "cancelled" => current_status = "CANCELLED" /\ result # None

\* C26: an agent node whose collaborator's process call has not returned can
\* still go on by a step of its own (its timeout), so that the run ends even
\* when the call never returns.
C26_HungCallTimesOut ==
    node \in AwaitingNodes => ENABLED Next

\* C28: get_agent_status and get_all_agents_status change neither the
\* registry nor any queue; get_agent_status returns {status: unknown, agent:
\* name} for a role that is not registered or whose collaborator has no
\* get_status; get_all_agents_status returns one entry per registered role.
C28_StatusReadOnly ==
    [][/\ Called("get_agent_status") \/ Called("get_all_agents_status")
          => UNCHANGED <<agent_registry, message_queue, lists>>
       /\ Called("get_agent_status")
          => LET name == last_call'[1].arg
             IN  name \notin DOMAIN agent_registry
                     \/ ~agent_registry[name].get_status
                 => last_call'[1].returned =
                        [status |-> "unknown", agent |-> name]
       /\ Called("get_all_agents_status")
          => DOMAIN last_call'[1].returned = DOMAIN agent_registry]_vars

C28_Witness ==
    /\ last_call = Call("get_agent_status", "research",
                        [status |-> "unknown", agent |-> "research"])
    /\ "research" \in DOMAIN agent_registry
    /\ Len(Queue("research")) = 2

\* C29: every invocation of an agent node, successful or failed, sets
\* agent_responses[role], confidence_scores[role] and processing_times[role],
\* appends role to agents_visited once and one entry to messages.
C29_NodeSideEffects ==
    [][\A role \in Roles :
          Ran(role)
          => /\ role \in DOMAIN agent_responses'
             /\ role \in DOMAIN confidence_scores'
             /\ role \in DOMAIN processing_times'
             /\ agents_visited' = Append(agents_visited, role)
             /\ Len(messages') = Len(messages) + 1]_vars

\* C30: validate_response changes only metadata.validation, retry_count and
\* current_status: an invalid answer with retry_count below the maximum adds
\* one to retry_count and leaves the status PROCESSING; a valid answer or
\* exhausted retries leave retry_count as it was; the other fields of the
\* state keep their values.
C30_ValidatorFrame ==
    [][Ran("validator")
       => /\ UNCHANGED <<query_type, original_query, priority, next_agent,
                         agents_visited, messages, agent_responses,
                         confidence_scores, processing_times, final_response,
                         total_confidence, errors>>
          /\ validation' # None
          /\ IF ~validation'[1].is_valid /\ retry_count < retry_max_attempts
             THEN /\ retry_count' = retry_count + 1
                  /\ current_status' = "PROCESSING"
             ELSE retry_count' = retry_count]_vars

C30_Witness ==
    /\ node = "router"
    /\ retry_count = 1
    /\ retry_max_attempts = 2
    /\ current_status = "PROCESSING"
    /\ validation # None
    /\ ~validation[1].is_valid
    /\ final_response # None

\* C31: the synthesizer node is never entered with an empty agent_responses
\* map: whenever the synthesizer is the node to run, and on every step that
\* runs it, at least one response is stored.
C31_SynthesizerHasResponses ==
    /\ [](node = "synthesizer" => DOMAIN agent_responses # {})
    /\ [][Ran("synthesizer") => SynthesisCase(agent_responses) # "none"]_vars

C31_Witness ==
    /\ node = "synthesizer"
    /\ DOMAIN agent_responses = {"research"}
    /\ agent_responses["research"].error # None
    /\ agents_visited = << >>

\* C32: for a query with query_type DECISION the research and code nodes never
\* run: agents_visited and the keys of agent_responses stay within {decision}.
C32_DecisionQueryRunsDecisionOnly ==
    /\ [](query_type = "DECISION"
            => /\ Range(agents_visited) \subseteq {"decision"}
               /\ DOMAIN agent_responses \subseteq {"decision"}
               /\ node \notin {"research", "code"})
    /\ [][query_type = "DECISION" => ~Ran("research") /\ ~Ran("code")]_vars

C32_Witness ==
    /\ query_type = "DECISION"
    /\ retry_count = 1
    /\ node = "synthesizer"
    /\ DOMAIN agent_responses = {"decision"}
    /\ Len(pass_nodes) = 1

\* C33: after every execution of the router node, the role stored in
\* next_agent and named in the routing message is the node executed next.
C33_NextAgentIsNextNode ==
    [][Ran("router")
       => /\ next_agent' = Some(node')
          /\ messages'[Len(messages')] = [kind |-> "routed", about |-> node']]_vars

\* C34: for every role with an entry in agent_responses, confidence_scores
\* has an entry for the role and it equals the confidence of that response.
C34_ScoresMatchResponses ==
    \A role \in DOMAIN agent_responses :
        /\ role \in DOMAIN confidence_scores
        /\ confidence_scores[role] = agent_responses[role].confidence

IsPrefix(s, t) == Len(s) <= Len(t) /\ SubSeq(t, 1, Len(s)) = s

\* C35: errors and agents_visited only grow during an execution, also when a
\* retry pass starts; with more than 2 entries in errors every validation
\* rejects the answer and the status is never COMPLETED.
C35_ErrorsAccumulate ==
    /\ [][IsPrefix(errors, errors') /\ IsPrefix(agents_visited, agents_visited')]_vars
    /\ [][Ran("validator") /\ Len(errors) > 2
            => ~validation'[1].is_valid /\ current_status' # "COMPLETED"]_vars
    /\ [](Len(errors) > 2 => current_status # "COMPLETED")

C35_Witness ==
    /\ Len(errors) > 2
    /\ validation # None
    /\ validation[1].issues = <<"Too many errors">>
    /\ current_status = "FAILED"
    /\ Len(agents_visited) >= 2

\* C36: registering a name that is already registered replaces its handle and
\* leaves the messages pending in that name's queue, and every other queue,
\* unchanged.
C36_ReRegisterKeepsQueues ==
    [][\A name \in Roles :
          /\ Called("register_agent")
          /\ last_call'[1].arg[1] = name
          /\ name \in DOMAIN agent_registry
          => /\ agent_registry'[name] = last_call'[1].arg[2]
             /\ \A n \in DOMAIN message_queue : Queue(n)' = Queue(n)]_vars

\* C37: in every reachable state of the protocol, also after the server's
\* shutdown step, the names in agent_registry are the names with a queue.
C37_RegistryMatchesQueues ==
    DOMAIN agent_registry = DOMAIN message_queue

\* C38: when process_query returns normally, the status in
\* active_queries[query_id], in the stored query document and in the WebSocket
\* update equals the status of the record execute returned; a FAILED result is
\* never recorded as COMPLETED.
C38_RecordedStatusIsResultStatus ==
    node = "responded"
    => /\ active_queries = Some(result[1].status)
       /\ announced = Some(result[1].status)
       /\ stored_status # None => stored_status = Some(result[1].status)

====
